---- MODULE Spec2Model ----
(***************************************************************************)
(* The interactive viewport of the demo (class DemoCanvas): the affine     *)
(* world<->screen transform, the surface metrics and re-fit on resize, and *)
(* the mouse / touch gesture handlers installed by enableInteraction.      *)
(*                                                                         *)
(* Numbers.  The code computes in IEEE doubles.  The model computes in     *)
(* exact rationals <<n, d>> (d > 0, lowest terms) and keeps one extra      *)
(* value, NonFinite == <<0, 0>>, for every non-finite double (NaN and      *)
(* +-Infinity): it is what a division by zero yields, it is absorbing for  *)
(* arithmetic and every comparison with it is false, as for NaN.  The code *)
(* never branches on a value that can be non-finite, so the merge of NaN   *)
(* and the infinities loses no behaviour of the handlers.  Rounding error  *)
(* of doubles is outside the model.                                        *)
(***************************************************************************)
EXTENDS Integers, Sequences, FiniteSets, TLC

----------------------------------------------------------------------------
(* Arithmetic on numbers *)

Abs(i) == IF i < 0 THEN -i ELSE i

RECURSIVE GCD(_, _)
GCD(a, b) == IF b = 0 THEN a ELSE GCD(b, a % b)

Gcd(a, b) == GCD(Abs(a), Abs(b))

NonFinite == <<0, 0>>

IsFinite(a) == a[2] # 0

\* n/d in lowest terms with a positive denominator (d # 0)
Norm(n, d) ==
    LET g == Gcd(n, d)
        s == IF d < 0 THEN -1 ELSE 1
    IN  <<s * (n \div g), s * (d \div g)>>

I(n) == <<n, 1>>

Zero == I(0)

Add(a, b) ==
    IF ~IsFinite(a) \/ ~IsFinite(b) THEN NonFinite
    ELSE LET g == Gcd(a[2], b[2])
         IN  Norm(a[1] * (b[2] \div g) + b[1] * (a[2] \div g), (a[2] \div g) * b[2])

Neg(a) == IF IsFinite(a) THEN <<-a[1], a[2]>> ELSE NonFinite

Sub(a, b) == Add(a, Neg(b))

Mul(a, b) ==
    IF ~IsFinite(a) \/ ~IsFinite(b) THEN NonFinite
    ELSE LET g1 == Gcd(a[1], b[2])
             g2 == Gcd(b[1], a[2])
         IN  Norm((a[1] \div g1) * (b[1] \div g2), (a[2] \div g2) * (b[2] \div g1))

\* a / b of doubles: a division by zero gives a non-finite value
Div(a, b) ==
    IF ~IsFinite(a) \/ ~IsFinite(b) \/ b[1] = 0 THEN NonFinite
    ELSE Mul(a, Norm(b[2], b[1]))

\* the comparisons of doubles: false when an operand is not finite
Lt(a, b) == IsFinite(a) /\ IsFinite(b) /\ a[1] * b[2] < b[1] * a[2]

Le(a, b) == IsFinite(a) /\ IsFinite(b) /\ a[1] * b[2] <= b[1] * a[2]

Gt(a, b) == Lt(b, a)

\* a === b of doubles: a non-finite value equals nothing
NumEq(a, b) == IsFinite(a) /\ IsFinite(b) /\ a = b

\* Math.min
Min(a, b) ==
    IF ~IsFinite(a) \/ ~IsFinite(b) THEN NonFinite
    ELSE IF Lt(b, a) THEN b ELSE a

\* the integer part of a finite non-negative number (the conversion done by
\* an assignment to canvas.width / canvas.height)
Trunc(a) == I(a[1] \div a[2])

\* the integer square root of n, searched in lo .. hi
RECURSIVE SqrtBetween(_, _, _)
SqrtBetween(n, lo, hi) ==
    IF lo >= hi THEN lo
    ELSE LET mid == (lo + hi + 1) \div 2
         IN  IF mid * mid <= n THEN SqrtBetween(n, mid, hi)
             ELSE SqrtBetween(n, lo, mid - 1)

\* Math.hypot(dx, dy) for integer dx, dy whose sum of squares is a perfect
\* square (the contact pairs of the model are chosen so)
Hypot(dx, dy) ==
    LET n == dx[1] * dx[1] + dy[1] * dy[1]
    IN  I(SqrtBetween(n, 0, Abs(dx[1]) + Abs(dy[1])))

----------------------------------------------------------------------------
(* Bounds and input sets *)

\* how many calls and events one behaviour delivers to the viewport
MaxEvents == 4

\* the padding parameter's default
DefaultPadding == 40

\* parent.clientWidth x parent.clientHeight
Sizes == {<<200, 200>>, <<90, 30>>}

\* window.devicePixelRatio (0 is falsy and read as 1)
Dprs == {I(0), <<3, 2>>}

\* window.devicePixelRatio at construction
InitialDprs == {I(0)}

\* world rectangles <<left, top, right, bottom>> handed to fitBounds; the
\* last two are degenerate (right = left, bottom < top)
Rects == {<<0, 0, 100, 50>>, <<50, 0, 50, 100>>, <<0, 80, 100, 20>>}

Paddings == {0, DefaultPadding}

\* the callback sets handed to enableInteraction
OptionSets ==
    { [onDragStart |-> FALSE, onDragMove |-> FALSE, onDragEnd |-> FALSE, onMouseMove |-> FALSE],
      [onDragStart |-> TRUE,  onDragMove |-> TRUE,  onDragEnd |-> TRUE,  onMouseMove |-> TRUE],
      [onDragStart |-> FALSE, onDragMove |-> TRUE,  onDragEnd |-> FALSE, onMouseMove |-> FALSE],
      [onDragStart |-> FALSE, onDragMove |-> FALSE, onDragEnd |-> TRUE,  onMouseMove |-> FALSE] }

----------------------------------------------------------------------------
(* State *)

VARIABLES
    offsetX, offsetY, scale,            \* the transform
    isPanning, panStartX, panStartY, panStartOffX, panStartOffY,
    isDragging,
    panGrabbed,                         \* history: <<>> or the world point <<wx, wy>> that was
                                        \* under the pointer at the last pan-starting mousedown
    touchDragging, touchPanning, lastTouchDist, lastTouchMidX, lastTouchMidY,
    savedBounds,                        \* <<>> (null) or <<rect>>
    dpr, canvasWidth, canvasHeight,     \* the surface metrics
    onResizeRedraw,                     \* whether setResizeRedraw set a callback
    opts,                               \* <<>> before enableInteraction, then <<callback set>>
    fitRequest,                         \* history: <<>> or <<the arguments of the caller's
                                        \* last fitBounds(left, top, right, bottom, padding)>>
    nEvents,                            \* calls and events delivered so far
    lastEvent,                          \* the handler or method that ran last
    calls,                              \* what that handler called, in order
    \* the demo page's router
    currentCleanup,                     \* <<>> (null) or <<route>>: the cleanup function that
                                        \* the demo of that route returned from init
    activeNav,                          \* <<>> or <<route>>: the nav link marked active
    container,                          \* what #main-content shows
    wasmModule,                         \* whether initWasm has stored the module
    navigations,                        \* the navigate() calls suspended at an await
    nNavigations,                       \* navigate() calls made so far
    \* the development build watcher
    building, pendingBuild,
    debounceTimer,                      \* whether a debounce timeout is pending
    running,                            \* wasm-pack processes spawned and not yet exited
    nChanges,                           \* change notifications delivered so far
    nBuilds,                            \* history: wasm-pack processes spawned so far
    unbuiltChange                       \* history: a notification for Rust sources has
                                        \* arrived and no build has been started since

transform == <<offsetX, offsetY, scale>>
mouseVars == <<isPanning, panStartX, panStartY, panStartOffX, panStartOffY, isDragging,
              panGrabbed>>
touchVars == <<touchDragging, touchPanning, lastTouchDist, lastTouchMidX, lastTouchMidY>>
surface   == <<dpr, canvasWidth, canvasHeight>>
viewportVars == <<transform, mouseVars, touchVars, surface, savedBounds, onResizeRedraw,
                  opts, fitRequest, nEvents, lastEvent, calls>>
routerVars == <<currentCleanup, activeNav, container, wasmModule, navigations, nNavigations>>
watcherVars == <<building, pendingBuild, debounceTimer, running, nChanges, nBuilds,
                 unbuiltChange>>
vars == <<viewportVars, routerVars, watcherVars>>

\* the router module before its first navigate(): currentCleanup is null,
\* wasmModule is null, the container is the empty element of the page
RouterLoaded ==
    /\ currentCleanup = <<>>
    /\ activeNav = <<>>
    /\ container = <<"empty">>
    /\ wasmModule = FALSE
    /\ navigations = {}
    /\ nNavigations = 0

\* the build watcher before its first notification
WatcherLoaded ==
    /\ building = FALSE
    /\ pendingBuild = FALSE
    /\ debounceTimer = FALSE
    /\ running = 0
    /\ nChanges = 0
    /\ nBuilds = 0
    /\ unbuiltChange = FALSE

----------------------------------------------------------------------------
(* Surface manager *)

\* window.devicePixelRatio || 1
DprOr1(d) == IF d = I(0) THEN I(1) ELSE d

\* resize(): the surface metrics for a parent of w x h at device pixel ratio d
resize(w, h, d) ==
    [dpr          |-> DprOr1(d),
     canvasWidth  |-> Trunc(Mul(I(w), DprOr1(d))),
     canvasHeight |-> Trunc(Mul(I(h), DprOr1(d)))]

\* get width() / get height() of a surface
width(s)  == Div(s.canvasWidth, s.dpr)
height(s) == Div(s.canvasHeight, s.dpr)

Surface == [dpr |-> dpr, canvasWidth |-> canvasWidth, canvasHeight |-> canvasHeight]

Transform == [offsetX |-> offsetX, offsetY |-> offsetY, scale |-> scale]

\* mutant: fitBounds aligning the rectangle's top-left corner with the
\* padding instead of centering it
fitTransformTopLeft(tr, s, left, top, right, bottom, padding) ==
    LET worldW  == Sub(I(right), I(left))
        worldH  == Sub(I(bottom), I(top))
        canvasW == Sub(width(s), I(padding * 2))
        canvasH == Sub(height(s), I(padding * 2))
        sc      == Min(Div(canvasW, worldW), Div(canvasH, worldH))
    IN  IF Le(worldW, Zero) \/ Le(worldH, Zero) THEN tr
        ELSE IF Le(canvasW, Zero) \/ Le(canvasH, Zero) THEN tr
        ELSE [offsetX |-> Sub(I(padding), Mul(I(left), sc)),
              offsetY |-> Sub(I(padding), Mul(I(top), sc)),
              scale   |-> sc]

\* mutant: fitBounds without the "not laid out yet" check
fitTransformNoLayoutCheck(tr, s, left, top, right, bottom, padding) ==
    LET worldW  == Sub(I(right), I(left))
        worldH  == Sub(I(bottom), I(top))
        canvasW == Sub(width(s), I(padding * 2))
        canvasH == Sub(height(s), I(padding * 2))
        sc      == Min(Div(canvasW, worldW), Div(canvasH, worldH))
        cx      == Div(Add(I(left), I(right)), I(2))
        cy      == Div(Add(I(top), I(bottom)), I(2))
    IN  IF Le(worldW, Zero) \/ Le(worldH, Zero) THEN tr
        ELSE [offsetX |-> Sub(Div(width(s), I(2)), Mul(cx, sc)),
              offsetY |-> Sub(Div(height(s), I(2)), Mul(cy, sc)),
              scale   |-> sc]

\* fitBounds(left, top, right, bottom, padding) on surface s: the transform
\* it leaves, given the transform tr before the call
fitTransform(tr, s, left, top, right, bottom, padding) ==
    LET worldW  == Sub(I(right), I(left))
        worldH  == Sub(I(bottom), I(top))
        canvasW == Sub(width(s), I(padding * 2))
        canvasH == Sub(height(s), I(padding * 2))
        sc      == Min(Div(canvasW, worldW), Div(canvasH, worldH))
        cx      == Div(Add(I(left), I(right)), I(2))
        cy      == Div(Add(I(top), I(bottom)), I(2))
    IN  IF Le(worldW, Zero) \/ Le(worldH, Zero) THEN tr
        ELSE IF Le(canvasW, Zero) \/ Le(canvasH, Zero) THEN tr
        ELSE [offsetX |-> Sub(Div(width(s), I(2)), Mul(cx, sc)),
              offsetY |-> Sub(Div(height(s), I(2)), Mul(cy, sc)),
              scale   |-> sc]

\* what fitBounds remembers: the rectangle (the padding is not kept)
fitSaved(left, top, right, bottom) == <<<<left, top, right, bottom>>>>

\* screenToWorld / worldToScreen, one axis, under offset off and scale sc
screenToWorld(s, off, sc) == Div(Sub(s, off), sc)
worldToScreen(w, off, sc) == Add(Mul(w, sc), off)

----------------------------------------------------------------------------
(* Construction and the public methods *)

\* constructor: resize() at the parent's size; every field at its initialiser
Init ==
    /\ \E sz \in Sizes, d \in InitialDprs :
          LET s == resize(sz[1], sz[2], d)
          IN  /\ dpr = s.dpr
              /\ canvasWidth = s.canvasWidth
              /\ canvasHeight = s.canvasHeight
    /\ offsetX = Zero /\ offsetY = Zero /\ scale = I(1)
    /\ isPanning = FALSE
    /\ panStartX = Zero /\ panStartY = Zero
    /\ panStartOffX = Zero /\ panStartOffY = Zero
    /\ isDragging = FALSE
    /\ panGrabbed = <<>>
    /\ touchDragging = FALSE /\ touchPanning = FALSE
    /\ lastTouchDist = Zero /\ lastTouchMidX = Zero /\ lastTouchMidY = Zero
    /\ savedBounds = <<>>
    /\ onResizeRedraw = FALSE
    /\ opts = <<>>
    /\ fitRequest = <<>>
    /\ nEvents = 0
    /\ lastEvent = "constructor"
    /\ calls = <<>>
    /\ RouterLoaded
    /\ WatcherLoaded

SetTransform(tr) ==
    /\ offsetX' = tr.offsetX
    /\ offsetY' = tr.offsetY
    /\ scale' = tr.scale

SetSurface(s) ==
    /\ dpr' = s.dpr
    /\ canvasWidth' = s.canvasWidth
    /\ canvasHeight' = s.canvasHeight

\* a call f(x, y) made by a handler, recorded when f is registered
CallIf(registered, f, x, y) == IF registered THEN <<<<f, x, y>>>> ELSE <<>>

Call0(f) == <<<<f>>>>

\* one more call or event is delivered
Tick ==
    /\ nEvents < MaxEvents
    /\ nEvents' = nEvents + 1

\* setResizeRedraw(fn)
SetResizeRedraw ==
    /\ Tick
    /\ UNCHANGED <<routerVars, watcherVars>>
    /\ onResizeRedraw' = TRUE
    /\ lastEvent' = "setResizeRedraw"
    /\ calls' = <<>>
    /\ UNCHANGED <<transform, mouseVars, touchVars, surface, savedBounds, opts>>
    /\ UNCHANGED fitRequest

\* mutant: a resize() that multiplies the view's scale by the pixel ratio on
\* every call
ResizeCumulative(w, h, d) ==
    /\ Tick
    /\ UNCHANGED <<routerVars, watcherVars>>
    /\ SetSurface(resize(w, h, d))
    /\ scale' = Mul(scale, DprOr1(d))
    /\ lastEvent' = "resize"
    /\ calls' = <<>>
    /\ UNCHANGED <<offsetX, offsetY, mouseVars, touchVars, savedBounds, onResizeRedraw,
                   opts, fitRequest>>

\* resize() called while the parent measures w x h at device pixel ratio d
Resize(w, h, d) ==
    /\ Tick
    /\ UNCHANGED <<routerVars, watcherVars>>
    /\ SetSurface(resize(w, h, d))
    /\ lastEvent' = "resize"
    /\ calls' = <<>>
    /\ UNCHANGED <<transform, mouseVars, touchVars, savedBounds, onResizeRedraw, opts>>
    /\ UNCHANGED fitRequest

\* mutant: a ResizeObserver callback that resets the view when no
\* rectangle is remembered
ResizeObserverCallbackResets(w, h, d) ==
    /\ Tick
    /\ UNCHANGED <<routerVars, watcherVars>>
    /\ SetSurface(resize(w, h, d))
    /\ IF savedBounds # <<>>
       THEN LET b == savedBounds[1]
            IN  SetTransform(fitTransform(Transform, resize(w, h, d),
                                          b[1], b[2], b[3], b[4], DefaultPadding))
       ELSE SetTransform([offsetX |-> Zero, offsetY |-> Zero, scale |-> I(1)])
    /\ lastEvent' = "resizeObserver"
    /\ calls' = IF onResizeRedraw THEN Call0("onResizeRedraw") ELSE <<>>
    /\ UNCHANGED <<mouseVars, touchVars, savedBounds, onResizeRedraw, opts, fitRequest>>

\* the ResizeObserver callback, the parent measuring w x h at ratio d:
\* resize(), then fitBounds on the remembered rectangle (with the default
\* padding: the call passes four arguments), then onResizeRedraw
ResizeObserverCallback(w, h, d) ==
    /\ Tick
    /\ UNCHANGED <<routerVars, watcherVars>>
    /\ SetSurface(resize(w, h, d))
    /\ IF savedBounds # <<>>
       THEN LET b == savedBounds[1]
            IN  /\ SetTransform(fitTransform(Transform, resize(w, h, d),
                                             b[1], b[2], b[3], b[4], DefaultPadding))
                /\ savedBounds' = fitSaved(b[1], b[2], b[3], b[4])
       ELSE UNCHANGED <<transform, savedBounds>>
    /\ lastEvent' = "resizeObserver"
    /\ calls' = IF onResizeRedraw THEN Call0("onResizeRedraw") ELSE <<>>
    /\ UNCHANGED <<mouseVars, touchVars, onResizeRedraw, opts>>
    /\ UNCHANGED fitRequest

\* mutant: a fitBounds that remembers the rectangle only when it could fit it
FitBoundsSavesAfterCheck(left, top, right, bottom, padding) ==
    /\ Tick
    /\ UNCHANGED <<routerVars, watcherVars>>
    /\ IF fitTransform(Transform, Surface, left, top, right, bottom, padding) = Transform
       THEN UNCHANGED savedBounds
       ELSE savedBounds' = fitSaved(left, top, right, bottom)
    /\ SetTransform(fitTransform(Transform, Surface, left, top, right, bottom, padding))
    /\ fitRequest' = <<<<left, top, right, bottom, padding>>>>
    /\ lastEvent' = "fitBounds"
    /\ calls' = <<>>
    /\ UNCHANGED <<mouseVars, touchVars, surface, onResizeRedraw, opts>>

\* fitBounds(left, top, right, bottom, padding)
FitBounds(left, top, right, bottom, padding) ==
    /\ Tick
    /\ UNCHANGED <<routerVars, watcherVars>>
    /\ savedBounds' = fitSaved(left, top, right, bottom)
    /\ SetTransform(fitTransform(Transform, Surface, left, top, right, bottom, padding))
    /\ fitRequest' = <<<<left, top, right, bottom, padding>>>>
    /\ lastEvent' = "fitBounds"
    /\ calls' = <<>>
    /\ UNCHANGED <<mouseVars, touchVars, surface, onResizeRedraw, opts>>

\* enableInteraction(o): stores the callbacks and installs the listeners
\* (called once per viewport)
EnableInteraction(o) ==
    /\ Tick
    /\ UNCHANGED <<routerVars, watcherVars>>
    /\ opts = <<>>
    /\ opts' = <<o>>
    /\ lastEvent' = "enableInteraction"
    /\ calls' = <<>>
    /\ UNCHANGED <<transform, mouseVars, touchVars, surface, savedBounds, onResizeRedraw>>
    /\ UNCHANGED fitRequest

----------------------------------------------------------------------------
(* Gesture router: inputs *)

\* canvas.getBoundingClientRect()
Rect == [left |-> 10, top |-> 20]

\* <<clientX, clientY>> of mouse events
MousePoints == {<<110, 120>>, <<160, 120>>}

\* <<e.button, e.altKey>> of mousedown
MouseButtons == {<<0, FALSE>>, <<0, TRUE>>, <<1, FALSE>>, <<2, FALSE>>, <<3, FALSE>>}

\* e.touches of touchstart / touchmove: <<clientX, clientY>> per contact.
\* The pairs lie on one horizontal line, so that their distance is exact:
\* 100 apart and 140 apart around the same midpoint, and two contacts at one
\* point away from that midpoint.
TouchLists ==
    { <<<<110, 120>>>>,
      <<<<110, 120>>, <<210, 120>>>>,
      <<<<90, 120>>, <<230, 120>>>>,
      <<<<110, 120>>, <<110, 120>>>>,
      <<<<110, 120>>, <<210, 120>>, <<160, 120>>>> }

\* e.touches.length of touchend
TouchEndCounts == 0 .. 2

\* the listeners exist once enableInteraction has run
Interactive == opts # <<>>

Opts == opts[1]

\* clientX - rect.left, clientY - rect.top
CanvasX(p) == Sub(I(p[1]), I(Rect.left))
CanvasY(p) == Sub(I(p[2]), I(Rect.top))

\* (t0.clientX + t1.clientX) / 2 - rect.left, and the same for y
MidX(ts) == Sub(Div(Add(I(ts[1][1]), I(ts[2][1])), I(2)), I(Rect.left))
MidY(ts) == Sub(Div(Add(I(ts[1][2]), I(ts[2][2])), I(2)), I(Rect.top))

\* Math.hypot(t1.clientX - t0.clientX, t1.clientY - t0.clientY)
TouchDist(ts) == Hypot(Sub(I(ts[2][1]), I(ts[1][1])), Sub(I(ts[2][2]), I(ts[1][2])))

\* the wheel's zoom factor: 1.1 for deltaY < 0, else 1 / 1.1
wheelZoomFactor(deltaNeg) == IF deltaNeg THEN <<11, 10>> ELSE Div(I(1), <<11, 10>>)

\* zoom towards (mx, my): newScale = scale * zoomFactor, then
\* offset = m - (m - offset) * (newScale / scale), then scale = newScale
zoomTowards(tr, mx, my, zoomFactor) ==
    LET newScale == Mul(tr.scale, zoomFactor)
    IN  [offsetX |-> Sub(mx, Mul(Sub(mx, tr.offsetX), Div(newScale, tr.scale))),
         offsetY |-> Sub(my, Mul(Sub(my, tr.offsetY), Div(newScale, tr.scale))),
         scale   |-> newScale]

\* the two-finger branch of touchmove once touchPanning is set: pan by the
\* midpoint delta, then zoom towards the midpoint by dist / lastDist when
\* the stored distance is positive
pinchTransform(tr, lastMidX, lastMidY, lastDist, mx, my, dist) ==
    LET panned == [offsetX |-> Add(tr.offsetX, Sub(mx, lastMidX)),
                   offsetY |-> Add(tr.offsetY, Sub(my, lastMidY)),
                   scale   |-> tr.scale]
    IN  IF Gt(lastDist, Zero)
        THEN zoomTowards(panned, mx, my, Div(dist, lastDist))
        ELSE panned

\* mutant: a pan that adds the pointer's distance from the anchor to the
\* current offset
panTransformRelative(tr, sx, sy) ==
    [offsetX |-> Add(tr.offsetX, Sub(sx, panStartX)),
     offsetY |-> Add(tr.offsetY, Sub(sy, panStartY)),
     scale   |-> tr.scale]

\* mousemove while panning: offset = panStartOff + (s - panStart)
panTransform(tr, sx, sy) ==
    [offsetX |-> Add(panStartOffX, Sub(sx, panStartX)),
     offsetY |-> Add(panStartOffY, Sub(sy, panStartY)),
     scale   |-> tr.scale]

\* mutant: a button test that takes Alt + left for a plain left button
IsPanButtonNoAlt(button, altKey) == button = 1 \/ button = 2

\* the button / modifier test of mousedown
IsPanButton(button, altKey) == button = 1 \/ button = 2 \/ (button = 0 /\ altKey)

\* mutant: single-finger touch captured whatever was registered
hasDragCallbacksAlways == TRUE

\* hasDragCallbacks = !!(opts?.onDragStart || opts?.onDragMove)
hasDragCallbacks == Opts.onDragStart \/ Opts.onDragMove

----------------------------------------------------------------------------
(* Gesture router: mouse handlers *)

\* 'wheel' at client point p
Wheel(p, deltaNeg) ==
    /\ Tick
    /\ UNCHANGED <<routerVars, watcherVars>>
    /\ Interactive
    /\ SetTransform(zoomTowards(Transform, CanvasX(p), CanvasY(p), wheelZoomFactor(deltaNeg)))
    /\ lastEvent' = "wheel"
    /\ calls' = Call0("preventDefault") \o Call0("redraw")
    /\ UNCHANGED <<mouseVars, touchVars, surface, savedBounds, onResizeRedraw, opts>>
    /\ UNCHANGED fitRequest

\* 'mousedown' at client point p
MouseDown(p, button, altKey) ==
    /\ Tick
    /\ UNCHANGED <<routerVars, watcherVars>>
    /\ Interactive
    /\ lastEvent' = "mousedown"
    /\ IF IsPanButton(button, altKey)
       THEN /\ isPanning' = TRUE
            /\ panStartX' = CanvasX(p)
            /\ panStartY' = CanvasY(p)
            /\ panStartOffX' = offsetX
            /\ panStartOffY' = offsetY
            /\ panGrabbed' = <<screenToWorld(CanvasX(p), offsetX, scale),
                               screenToWorld(CanvasY(p), offsetY, scale)>>
            /\ calls' = Call0("preventDefault")
            /\ UNCHANGED isDragging
       ELSE IF button = 0
       THEN /\ isDragging' = TRUE
            /\ calls' = CallIf(Opts.onDragStart, "onDragStart",
                               screenToWorld(CanvasX(p), offsetX, scale),
                               screenToWorld(CanvasY(p), offsetY, scale))
            /\ UNCHANGED <<isPanning, panStartX, panStartY, panStartOffX, panStartOffY,
                           panGrabbed>>
       ELSE /\ calls' = <<>>
            /\ UNCHANGED mouseVars
    /\ UNCHANGED <<transform, touchVars, surface, savedBounds, onResizeRedraw, opts>>
    /\ UNCHANGED fitRequest

\* 'mousemove' at client point p (the coordinate readout, a text sink, is
\* not part of the state)
MouseMove(p) ==
    /\ Tick
    /\ UNCHANGED <<routerVars, watcherVars>>
    /\ Interactive
    /\ lastEvent' = "mousemove"
    /\ LET wx == screenToWorld(CanvasX(p), offsetX, scale)
           wy == screenToWorld(CanvasY(p), offsetY, scale)
       IN  IF isPanning
           THEN /\ SetTransform(panTransform(Transform, CanvasX(p), CanvasY(p)))
                /\ calls' = Call0("redraw")
           ELSE /\ calls' = IF isDragging
                            THEN CallIf(Opts.onDragMove, "onDragMove", wx, wy)
                            ELSE CallIf(Opts.onMouseMove, "onMouseMove", wx, wy)
                /\ UNCHANGED transform
    /\ UNCHANGED <<mouseVars, touchVars, surface, savedBounds, onResizeRedraw, opts>>
    /\ UNCHANGED fitRequest

\* what ending a drag calls: this.onDragEnd?.()
EndDragCalls == IF Opts.onDragEnd THEN Call0("onDragEnd") ELSE <<>>

\* 'mouseup'
MouseUp ==
    /\ Tick
    /\ UNCHANGED <<routerVars, watcherVars>>
    /\ Interactive
    /\ lastEvent' = "mouseup"
    /\ isPanning' = FALSE
    /\ isDragging' = FALSE
    /\ calls' = IF isDragging THEN EndDragCalls ELSE <<>>
    /\ UNCHANGED <<panStartX, panStartY, panStartOffX, panStartOffY, panGrabbed>>
    /\ UNCHANGED <<transform, touchVars, surface, savedBounds, onResizeRedraw, opts>>
    /\ UNCHANGED fitRequest

\* 'mouseleave'
MouseLeave ==
    /\ Tick
    /\ UNCHANGED <<routerVars, watcherVars>>
    /\ Interactive
    /\ lastEvent' = "mouseleave"
    /\ isPanning' = FALSE
    /\ isDragging' = FALSE
    /\ calls' = IF isDragging THEN EndDragCalls ELSE <<>>
    /\ UNCHANGED <<panStartX, panStartY, panStartOffX, panStartOffY, panGrabbed>>
    /\ UNCHANGED <<transform, touchVars, surface, savedBounds, onResizeRedraw, opts>>
    /\ UNCHANGED fitRequest

\* mutant: a context-menu event that resets the view
ContextMenuResets ==
    /\ Tick
    /\ UNCHANGED <<routerVars, watcherVars>>
    /\ Interactive
    /\ lastEvent' = "contextmenu"
    /\ calls' = Call0("preventDefault")
    /\ SetTransform([offsetX |-> Zero, offsetY |-> Zero, scale |-> I(1)])
    /\ UNCHANGED <<mouseVars, touchVars, surface, savedBounds, onResizeRedraw, opts,
                   fitRequest>>

\* 'contextmenu'
ContextMenu ==
    /\ Tick
    /\ UNCHANGED <<routerVars, watcherVars>>
    /\ Interactive
    /\ lastEvent' = "contextmenu"
    /\ calls' = Call0("preventDefault")
    /\ UNCHANGED <<transform, mouseVars, touchVars, surface, savedBounds, onResizeRedraw,
                   opts>>
    /\ UNCHANGED fitRequest

----------------------------------------------------------------------------
(* Gesture router: touch handlers *)

\* the pinch / pan baseline taken from two contacts
SetBaseline(ts) ==
    /\ lastTouchMidX' = MidX(ts)
    /\ lastTouchMidY' = MidY(ts)
    /\ lastTouchDist' = TouchDist(ts)

baseline == <<lastTouchDist, lastTouchMidX, lastTouchMidY>>

\* mutant: a touchstart whose two-contact branch starts the pan without
\* ending the one-finger drag
TouchStartKeepsDrag(ts) ==
    /\ Tick
    /\ UNCHANGED <<routerVars, watcherVars>>
    /\ Interactive
    /\ lastEvent' = "touchstart"
    /\ IF Len(ts) = 1
       THEN IF hasDragCallbacks
            THEN /\ touchDragging' = TRUE
                 /\ touchPanning' = FALSE
                 /\ calls' = Call0("preventDefault")
                             \o CallIf(Opts.onDragStart, "onDragStart",
                                       screenToWorld(CanvasX(ts[1]), offsetX, scale),
                                       screenToWorld(CanvasY(ts[1]), offsetY, scale))
                 /\ UNCHANGED baseline
            ELSE /\ calls' = <<>>
                 /\ UNCHANGED touchVars
       ELSE IF Len(ts) = 2
       THEN /\ touchDragging' = FALSE
            /\ touchPanning' = TRUE
            /\ SetBaseline(ts)
            /\ calls' = Call0("preventDefault")
       ELSE /\ calls' = <<>>
            /\ UNCHANGED touchVars
    /\ UNCHANGED <<transform, mouseVars, surface, savedBounds, onResizeRedraw, opts,
                   fitRequest>>

\* 'touchstart' with e.touches = ts
TouchStart(ts) ==
    /\ Tick
    /\ UNCHANGED <<routerVars, watcherVars>>
    /\ Interactive
    /\ lastEvent' = "touchstart"
    /\ IF Len(ts) = 1
       THEN IF hasDragCallbacks
            THEN /\ touchDragging' = TRUE
                 /\ touchPanning' = FALSE
                 /\ calls' = Call0("preventDefault")
                             \o CallIf(Opts.onDragStart, "onDragStart",
                                       screenToWorld(CanvasX(ts[1]), offsetX, scale),
                                       screenToWorld(CanvasY(ts[1]), offsetY, scale))
                 /\ UNCHANGED baseline
            ELSE /\ calls' = <<>>
                 /\ UNCHANGED touchVars
       ELSE IF Len(ts) = 2
       THEN /\ touchDragging' = FALSE
            /\ touchPanning' = TRUE
            /\ SetBaseline(ts)
            /\ calls' = Call0("preventDefault")
                        \o (IF touchDragging THEN EndDragCalls ELSE <<>>)
       ELSE /\ calls' = <<>>
            /\ UNCHANGED touchVars
    /\ UNCHANGED <<transform, mouseVars, surface, savedBounds, onResizeRedraw, opts>>
    /\ UNCHANGED fitRequest

\* mutant: a touchmove whose pinch frames keep the baseline of the gesture's
\* start
TouchMoveAnchored(ts) ==
    /\ Tick
    /\ UNCHANGED <<routerVars, watcherVars>>
    /\ Interactive
    /\ lastEvent' = "touchmove"
    /\ IF Len(ts) = 1 /\ touchDragging
       THEN /\ calls' = Call0("preventDefault")
                        \o CallIf(Opts.onDragMove, "onDragMove",
                                  screenToWorld(CanvasX(ts[1]), offsetX, scale),
                                  screenToWorld(CanvasY(ts[1]), offsetY, scale))
            /\ UNCHANGED <<transform, touchVars>>
       ELSE IF Len(ts) = 2
       THEN IF ~touchPanning
            THEN \* from a one-finger drag to the two-finger pan: re-baseline only
                 /\ touchDragging' = FALSE
                 /\ touchPanning' = TRUE
                 /\ SetBaseline(ts)
                 /\ calls' = Call0("preventDefault")
                             \o (IF touchDragging THEN EndDragCalls ELSE <<>>)
                 /\ UNCHANGED transform
            ELSE /\ SetTransform(pinchTransform(Transform, lastTouchMidX, lastTouchMidY,
                                                lastTouchDist, MidX(ts), MidY(ts),
                                                TouchDist(ts)))
                 /\ UNCHANGED baseline
                 /\ calls' = Call0("preventDefault") \o Call0("redraw")
                 /\ UNCHANGED <<touchDragging, touchPanning>>
       ELSE /\ calls' = <<>>
            /\ UNCHANGED <<transform, touchVars>>
    /\ UNCHANGED <<mouseVars, surface, savedBounds, onResizeRedraw, opts>>
    /\ UNCHANGED fitRequest

\* 'touchmove' with e.touches = ts (the coordinate readout is not part of
\* the state)
TouchMove(ts) ==
    /\ Tick
    /\ UNCHANGED <<routerVars, watcherVars>>
    /\ Interactive
    /\ lastEvent' = "touchmove"
    /\ IF Len(ts) = 1 /\ touchDragging
       THEN /\ calls' = Call0("preventDefault")
                        \o CallIf(Opts.onDragMove, "onDragMove",
                                  screenToWorld(CanvasX(ts[1]), offsetX, scale),
                                  screenToWorld(CanvasY(ts[1]), offsetY, scale))
            /\ UNCHANGED <<transform, touchVars>>
       ELSE IF Len(ts) = 2
       THEN IF ~touchPanning
            THEN \* from a one-finger drag to the two-finger pan: re-baseline only
                 /\ touchDragging' = FALSE
                 /\ touchPanning' = TRUE
                 /\ SetBaseline(ts)
                 /\ calls' = Call0("preventDefault")
                             \o (IF touchDragging THEN EndDragCalls ELSE <<>>)
                 /\ UNCHANGED transform
            ELSE /\ SetTransform(pinchTransform(Transform, lastTouchMidX, lastTouchMidY,
                                                lastTouchDist, MidX(ts), MidY(ts),
                                                TouchDist(ts)))
                 /\ SetBaseline(ts)
                 /\ calls' = Call0("preventDefault") \o Call0("redraw")
                 /\ UNCHANGED <<touchDragging, touchPanning>>
       ELSE /\ calls' = <<>>
            /\ UNCHANGED <<transform, touchVars>>
    /\ UNCHANGED <<mouseVars, surface, savedBounds, onResizeRedraw, opts>>
    /\ UNCHANGED fitRequest

\* mutant: a touchend that ends the pan only when no contact remains
TouchEndKeepsPan(n) ==
    /\ Tick
    /\ UNCHANGED <<routerVars, watcherVars>>
    /\ Interactive
    /\ lastEvent' = "touchend"
    /\ IF n = 0
       THEN /\ touchDragging' = FALSE
            /\ touchPanning' = FALSE
            /\ calls' = IF touchDragging THEN EndDragCalls ELSE <<>>
       ELSE /\ calls' = <<>>
            /\ UNCHANGED <<touchDragging, touchPanning>>
    /\ UNCHANGED baseline
    /\ UNCHANGED <<transform, mouseVars, surface, savedBounds, onResizeRedraw, opts,
                   fitRequest>>

\* 'touchend' with e.touches.length = n
TouchEnd(n) ==
    /\ Tick
    /\ UNCHANGED <<routerVars, watcherVars>>
    /\ Interactive
    /\ lastEvent' = "touchend"
    /\ IF n = 0
       THEN /\ touchDragging' = FALSE
            /\ touchPanning' = FALSE
            /\ calls' = IF touchDragging THEN EndDragCalls ELSE <<>>
       ELSE IF n = 1 /\ touchPanning
       THEN /\ touchPanning' = FALSE
            /\ calls' = <<>>
            /\ UNCHANGED touchDragging
       ELSE /\ calls' = <<>>
            /\ UNCHANGED <<touchDragging, touchPanning>>
    /\ UNCHANGED baseline
    /\ UNCHANGED <<transform, mouseVars, surface, savedBounds, onResizeRedraw, opts>>
    /\ UNCHANGED fitRequest

\* mutant: a touchcancel that drops the touch modes without ending the drag
TouchCancelSilent ==
    /\ Tick
    /\ UNCHANGED <<routerVars, watcherVars>>
    /\ Interactive
    /\ lastEvent' = "touchcancel"
    /\ touchDragging' = FALSE
    /\ touchPanning' = FALSE
    /\ calls' = <<>>
    /\ UNCHANGED <<lastTouchDist, lastTouchMidX, lastTouchMidY>>
    /\ UNCHANGED <<transform, mouseVars, surface, savedBounds, onResizeRedraw, opts,
                   fitRequest>>

\* 'touchcancel'
TouchCancel ==
    /\ Tick
    /\ UNCHANGED <<routerVars, watcherVars>>
    /\ Interactive
    /\ lastEvent' = "touchcancel"
    /\ touchDragging' = FALSE
    /\ touchPanning' = FALSE
    /\ calls' = IF touchDragging THEN EndDragCalls ELSE <<>>
    /\ UNCHANGED baseline
    /\ UNCHANGED <<transform, mouseVars, surface, savedBounds, onResizeRedraw, opts>>
    /\ UNCHANGED fitRequest

----------------------------------------------------------------------------
(* Specification *)

Next ==
    \/ SetResizeRedraw
    \/ \E sz \in Sizes, d \in Dprs : Resize(sz[1], sz[2], d)
    \/ \E sz \in Sizes, d \in Dprs : ResizeObserverCallback(sz[1], sz[2], d)
    \/ \E r \in Rects, p \in Paddings : FitBounds(r[1], r[2], r[3], r[4], p)
    \/ \E o \in OptionSets : EnableInteraction(o)
    \/ \E p \in MousePoints, deltaNeg \in BOOLEAN : Wheel(p, deltaNeg)
    \/ \E p \in MousePoints, b \in MouseButtons : MouseDown(p, b[1], b[2])
    \/ \E p \in MousePoints : MouseMove(p)
    \/ MouseUp
    \/ MouseLeave
    \/ ContextMenu
    \/ \E ts \in TouchLists : TouchStart(ts)
    \/ \E ts \in TouchLists : TouchMove(ts)
    \/ \E n \in TouchEndCounts : TouchEnd(n)
    \/ TouchCancel


Spec == Init /\ [][Next]_vars

----------------------------------------------------------------------------
(* Drawing primitives: the grid *)

\* the view scales the grid is drawn at: 1/20, 2/20, ... up to MaxGridScale/20
MaxGridScale == 800

GridScales == {Div(I(k), I(20)) : k \in 1 .. MaxGridScale}

\* the world-space spacing drawGrid computes: gridStep = 50, screenStep =
\* gridStep * scale taken once, then one adjustment up and one down
gridStep(sc) ==
    LET screenStep == Mul(I(50), sc)
        up   == IF Lt(screenStep, I(30)) THEN Mul(I(50), I(5))
                ELSE IF Lt(screenStep, I(60)) THEN Mul(I(50), I(2))
                ELSE I(50)
    IN  IF Gt(screenStep, I(300)) THEN Div(up, I(5))
        ELSE IF Gt(screenStep, I(150)) THEN Div(up, I(2))
        ELSE up

\* drawGrid(): grid lines every gridStep world units; the view is not changed
DrawGrid ==
    /\ Tick
    /\ UNCHANGED <<routerVars, watcherVars>>
    /\ lastEvent' = "drawGrid"
    /\ calls' = <<<<"gridLines", gridStep(scale)>>>>
    /\ UNCHANGED <<transform, mouseVars, touchVars, surface, savedBounds, onResizeRedraw,
                   opts, fitRequest>>

\* a constructed viewport whose view has been brought to one of GridScales
GridInit ==
    /\ \E sz \in Sizes, d \in InitialDprs :
          LET s == resize(sz[1], sz[2], d)
          IN  /\ dpr = s.dpr
              /\ canvasWidth = s.canvasWidth
              /\ canvasHeight = s.canvasHeight
    /\ offsetX = Zero /\ offsetY = Zero
    /\ scale \in GridScales
    /\ isPanning = FALSE
    /\ panStartX = Zero /\ panStartY = Zero
    /\ panStartOffX = Zero /\ panStartOffY = Zero
    /\ isDragging = FALSE
    /\ panGrabbed = <<>>
    /\ touchDragging = FALSE /\ touchPanning = FALSE
    /\ lastTouchDist = Zero /\ lastTouchMidX = Zero /\ lastTouchMidY = Zero
    /\ savedBounds = <<>>
    /\ onResizeRedraw = FALSE
    /\ opts = <<>>
    /\ fitRequest = <<>>
    /\ nEvents = 0
    /\ lastEvent = "constructor"
    /\ calls = <<>>
    /\ RouterLoaded
    /\ WatcherLoaded

GridNext == DrawGrid

GridSpec == GridInit /\ [][GridNext]_vars

----------------------------------------------------------------------------
(* The demo page's router *)

\* navigate() calls of one run
MaxNavigations == 3

\* keys of demoModules
DemoRoutes == {"offset", "polytree"}

\* window.location.hash as its characters '#', '/' and the rest in one piece:
\* no hash, "#/", two demos, "#/home" and a hash that names no demo
Hashes == {<<>>, <<"#", "/">>, <<"#", "/", "offset">>, <<"#", "/", "polytree">>,
           <<"#", "/", "home">>, <<"#", "/", "nowhere">>}

\* hash.slice(2)
slice2(h) == IF Len(h) > 2 THEN SubSeq(h, 3, Len(h)) ELSE <<>>

\* getRoute(): hash.slice(2), or 'home' when that is empty
getRoute(h) == IF slice2(h) = <<>> THEN "home" ELSE slice2(h)[1]

\* a navigate() call suspended at one of its two awaits
Suspended(id, route, at) == [id |-> id, route |-> route, at |-> at]

\* the hashchange listener, or the initial load: navigate(getRoute()) up to
\* its first await or its return
Navigate(h) ==
    LET route == getRoute(h)
    IN  /\ nNavigations < MaxNavigations
        /\ nNavigations' = nNavigations + 1
        /\ currentCleanup' = <<>>
        /\ activeNav' = <<route>>
        /\ IF route = "home"
           THEN /\ container' = <<"home">>
                /\ UNCHANGED navigations
           ELSE IF route \notin DemoRoutes
           THEN /\ container' = <<"notfound", route>>
                /\ UNCHANGED navigations
           ELSE /\ container' = <<"loading">>
                /\ navigations' = navigations \cup
                                    {Suspended(nNavigations + 1, route, "initWasm")}
        /\ UNCHANGED wasmModule
        /\ UNCHANGED <<viewportVars, watcherVars>>

\* await initWasm() resolves; navigate() goes on to call loader() and awaits it
InitWasmResolves(n) ==
    /\ n \in navigations
    /\ n.at = "initWasm"
    /\ wasmModule' = TRUE
    /\ navigations' = (navigations \ {n}) \cup {Suspended(n.id, n.route, "loader")}
    /\ UNCHANGED <<currentCleanup, activeNav, container, nNavigations>>
    /\ UNCHANGED <<viewportVars, watcherVars>>

\* the catch block of navigate()
ShowError(n) ==
    /\ container' = <<"error", n.route>>
    /\ navigations' = navigations \ {n}
    /\ UNCHANGED <<currentCleanup, activeNav, wasmModule, nNavigations>>
    /\ UNCHANGED <<viewportVars, watcherVars>>

\* await initWasm() rejects: the import or the module's initialisation failed
InitWasmRejects(n) ==
    /\ n \in navigations
    /\ n.at = "initWasm"
    /\ ~wasmModule
    /\ ShowError(n)

\* await loader() resolves: the container is emptied and the demo's init
\* mounts into it; init returns a cleanup function or nothing
LoaderResolves(n, cleanup) ==
    /\ n \in navigations
    /\ n.at = "loader"
    /\ container' = <<"demo", n.route>>
    /\ currentCleanup' = IF cleanup THEN <<n.route>> ELSE currentCleanup
    /\ navigations' = navigations \ {n}
    /\ UNCHANGED <<activeNav, wasmModule, nNavigations>>
    /\ UNCHANGED <<viewportVars, watcherVars>>

\* await loader() rejects, or the demo's init throws
LoaderRejects(n) ==
    /\ n \in navigations
    /\ n.at = "loader"
    /\ ShowError(n)

RouterNext ==
    \/ \E h \in Hashes : Navigate(h)
    \/ \E n \in navigations : InitWasmResolves(n)
    \/ \E n \in navigations : InitWasmRejects(n)
    \/ \E n \in navigations, cleanup \in BOOLEAN : LoaderResolves(n, cleanup)
    \/ \E n \in navigations : LoaderRejects(n)

RouterSpec == Init /\ [][RouterNext]_vars

----------------------------------------------------------------------------
(* The development build watcher *)

\* change notifications of one run
MaxChanges == 6

\* the filename of a notification as its stem and its extensions; <<>> is
\* null (or the empty string, which the test treats alike)
Filenames == {<<>>, <<"lib", ".rs">>, <<"Cargo", ".toml">>, <<"lib", ".rs", ".orig">>}

\* filename.endsWith(".rs")
endsWithRs(f) == f[Len(f)] = ".rs"

WatcherState == [building |-> building, pendingBuild |-> pendingBuild, spawned |-> 0]

\* mutant: buildWasm() that spawns whether or not a build is running
buildWasmUnguarded(st) ==
    [st EXCEPT !.building = TRUE, !.spawned = @ + 1]

\* buildWasm() up to its await: a call during a build is remembered in
\* pendingBuild, any other call spawns a wasm-pack process
buildWasm(st) ==
    IF st.building
    THEN [st EXCEPT !.pendingBuild = TRUE]
    ELSE [st EXCEPT !.building = TRUE, !.spawned = @ + 1]

\* the state buildWasm() and its continuation leave, with the processes
\* that exited and that were spawned accounted for
SetWatcher(st, exited) ==
    /\ building' = st.building
    /\ pendingBuild' = st.pendingBuild
    /\ running' = running - exited + st.spawned
    /\ nBuilds' = nBuilds + st.spawned
    /\ unbuiltChange' = (unbuiltChange /\ st.spawned = 0)

\* the watch() callback: onRustChange(filename)
OnRustChange(f) ==
    /\ nChanges < MaxChanges
    /\ nChanges' = nChanges + 1
    /\ IF f # <<>> /\ ~endsWithRs(f)
       THEN UNCHANGED <<debounceTimer, unbuiltChange>>
       ELSE /\ debounceTimer' = TRUE
            /\ unbuiltChange' = TRUE
    /\ UNCHANGED <<building, pendingBuild, running, nBuilds>>
    /\ UNCHANGED <<viewportVars, routerVars>>

\* the debounce timeout fires: buildWasm()
TimerFires ==
    /\ debounceTimer
    /\ debounceTimer' = FALSE
    /\ SetWatcher(buildWasm(WatcherState), 0)
    /\ UNCHANGED nChanges
    /\ UNCHANGED <<viewportVars, routerVars>>

\* mutant: the continuation of buildWasm() that forgets pendingBuild
BuildExitsDropsPending ==
    /\ running > 0
    /\ SetWatcher([WatcherState EXCEPT !.building = FALSE, !.pendingBuild = FALSE], 1)
    /\ UNCHANGED <<debounceTimer, nChanges>>
    /\ UNCHANGED <<viewportVars, routerVars>>

\* a wasm-pack process exits, with either exit code: the buildWasm() call
\* that awaited it clears building and, when a build is pending, clears
\* pendingBuild and calls buildWasm() again
BuildExits ==
    /\ running > 0
    /\ LET idle == [WatcherState EXCEPT !.building = FALSE]
       IN  SetWatcher(IF idle.pendingBuild
                      THEN buildWasm([idle EXCEPT !.pendingBuild = FALSE])
                      ELSE idle, 1)
    /\ UNCHANGED <<debounceTimer, nChanges>>
    /\ UNCHANGED <<viewportVars, routerVars>>

WatcherNext ==
    \/ \E f \in Filenames : OnRustChange(f)
    \/ TimerFires
    \/ BuildExits

WatcherSpec == Init /\ [][WatcherNext]_vars

\* every pending timeout fires and every started process exits
WatcherFairSpec == WatcherSpec /\ WF_vars(TimerFires) /\ WF_vars(BuildExits)

----------------------------------------------------------------------------
(* Properties *)

\* how often handler output c calls f
CallCount(c, f) == Cardinality({i \in DOMAIN c : c[i][1] = f})

B2N(b) == IF b THEN 1 ELSE 0

\* the number of active gesture modes
ActiveModes == B2N(isDragging) + B2N(isPanning) + B2N(touchDragging) + B2N(touchPanning)

TouchPairs == {ts \in TouchLists : Len(ts) = 2}

\* C1 -- Gesture exclusivity: after every event at most one of the modes
\* Dragging, Panning, TouchDragging, TouchPanning is active.
GestureExclusivity == ActiveModes <= 1

\* C2 -- Scale positivity: scale > 0 in every state reachable from
\* construction.
ScalePositive == Gt(scale, Zero)

\* C3 -- No dangling drag: a pointer-leave that arrives while the mouse drag
\* is active, and a touch-cancel that arrives while the touch drag is active,
\* invokes end-drag exactly once (when an end-drag callback is registered)
\* and leaves that drag, and with it the mouse side respectively the touch
\* side, inactive; and no event invokes end-drag unless it ends an active
\* drag, so that no later event ends the same drag a second time.
NoDanglingDragStep ==
    /\ (lastEvent' = "mouseleave" /\ isDragging)
          => /\ ~isDragging' /\ ~isPanning'
             /\ CallCount(calls', "onDragEnd") = B2N(Opts.onDragEnd)
    /\ (lastEvent' = "touchcancel" /\ touchDragging)
          => /\ ~touchDragging' /\ ~touchPanning'
             /\ CallCount(calls', "onDragEnd") = B2N(Opts.onDragEnd)
    /\ CallCount(calls', "onDragEnd") <= 1
    /\ CallCount(calls', "onDragEnd") = 1
          => \/ isDragging /\ ~isDragging' /\ touchDragging' = touchDragging
             \/ touchDragging /\ ~touchDragging' /\ isDragging' = isDragging

ZoomAnchorStep ==
    lastEvent' = "wheel" =>
    \A p \in MousePoints, deltaNeg \in BOOLEAN :
        Wheel(p, deltaNeg) =>
            /\ NumEq(screenToWorld(CanvasX(p), offsetX', scale'),
                     screenToWorld(CanvasX(p), offsetX, scale))
            /\ NumEq(screenToWorld(CanvasY(p), offsetY', scale'),
                     screenToWorld(CanvasY(p), offsetY, scale))
            /\ NumEq(scale', Mul(scale, wheelZoomFactor(deltaNeg)))

ZoomAnchorInvariance == [][ZoomAnchorStep]_vars

\* C5 -- Pinch zoom: in TouchPanning a two-contact touch-move with distance
\* d and midpoint m, the stored distance d0 being positive and the stored
\* midpoint m0, multiplies scale by d / d0 and puts the world point that was
\* under m0 under m.
PinchZoomStep ==
    lastEvent' = "touchmove" =>
    \A ts \in TouchPairs :
        (TouchMove(ts) /\ touchPanning /\ Gt(lastTouchDist, Zero)) =>
            /\ NumEq(scale', Mul(scale, Div(TouchDist(ts), lastTouchDist)))
            /\ NumEq(screenToWorld(MidX(ts), offsetX', scale'),
                     screenToWorld(lastTouchMidX, offsetX, scale))
            /\ NumEq(screenToWorld(MidY(ts), offsetY', scale'),
                     screenToWorld(lastTouchMidY, offsetY, scale))

PinchZoom == [][PinchZoomStep]_vars

\* sample world and screen coordinates
SampleCoords == {I(-50), Zero, I(100), <<1, 3>>}

\* C6 -- Inverse property: in every reachable transform state
\* screenToWorld(worldToScreen(w)) = w and worldToScreen(screenToWorld(s)) = s
\* on both axes.
InverseProperty ==
    \A c \in SampleCoords :
        /\ NumEq(screenToWorld(worldToScreen(c, offsetX, scale), offsetX, scale), c)
        /\ NumEq(screenToWorld(worldToScreen(c, offsetY, scale), offsetY, scale), c)
        /\ NumEq(worldToScreen(screenToWorld(c, offsetX, scale), offsetX, scale), c)
        /\ NumEq(worldToScreen(screenToWorld(c, offsetY, scale), offsetY, scale), c)


\* the arguments of the fitBounds call a step makes, and what the claims
\* call the available space: the logical size minus twice the padding
FitArgs == fitRequest'[1]
AvailableWidth(padding)  == Sub(width(Surface), I(2 * padding))
AvailableHeight(padding) == Sub(height(Surface), I(2 * padding))

\* C7 -- Fit centers content: after fitBounds(left, top, right, bottom,
\* padding) with right > left, bottom > top and positive available space,
\* scale = min(availableWidth / (right - left), availableHeight / (bottom - top))
\* and worldToScreen maps the rectangle's center to (width / 2, height / 2),
\* whatever the transform was before.
FitCentersContentStep ==
    lastEvent' = "fitBounds" =>
        LET left == FitArgs[1]  top == FitArgs[2]  right == FitArgs[3]
            bottom == FitArgs[4]  padding == FitArgs[5]
        IN  (/\ right > left /\ bottom > top
             /\ Gt(AvailableWidth(padding), Zero)
             /\ Gt(AvailableHeight(padding), Zero))
            => /\ NumEq(scale', Min(Div(AvailableWidth(padding), I(right - left)),
                                    Div(AvailableHeight(padding), I(bottom - top))))
               /\ NumEq(worldToScreen(Div(I(left + right), I(2)), offsetX', scale'),
                        Div(width(Surface), I(2)))
               /\ NumEq(worldToScreen(Div(I(top + bottom), I(2)), offsetY', scale'),
                        Div(height(Surface), I(2)))

FitCentersContent == [][FitCentersContentStep]_vars

\* fitBounds(0, 0, 100, 50, 0) on a 200 x 200 surface has set scale 2 and put
\* the world point (50, 25) at the screen point (100, 100)
FitCentersContentWitness ==
    /\ lastEvent = "fitBounds"
    /\ fitRequest = <<<<0, 0, 100, 50, 0>>>>
    /\ width(Surface) = I(200) /\ height(Surface) = I(200)
    /\ scale = I(2)
    /\ worldToScreen(I(50), offsetX, scale) = I(100)
    /\ worldToScreen(I(25), offsetY, scale) = I(100)

\* C8 -- Degenerate fit is a no-op: fitBounds with right <= left, or
\* bottom <= top, or non-positive available width or height leaves scale,
\* offsetX and offsetY as they were.
DegenerateFitStep ==
    lastEvent' = "fitBounds" =>
        LET left == FitArgs[1]  top == FitArgs[2]  right == FitArgs[3]
            bottom == FitArgs[4]  padding == FitArgs[5]
        IN  (\/ right <= left \/ bottom <= top
             \/ Le(AvailableWidth(padding), Zero)
             \/ Le(AvailableHeight(padding), Zero))
            => UNCHANGED <<scale, offsetX, offsetY>>

DegenerateFitIsNoOp == [][DegenerateFitStep]_vars

\* a fit of a well-formed rectangle into a surface with no room for the
\* padding has kept a transform that an earlier zoom or fit had set
DegenerateFitWitness ==
    /\ lastEvent = "fitBounds"
    /\ fitRequest[1][3] > fitRequest[1][1] /\ fitRequest[1][4] > fitRequest[1][2]
    /\ Le(Sub(height(Surface), I(2 * fitRequest[1][5])), Zero)
    /\ scale # I(1)

\* C9 -- Resize re-fit uses the remembered request: after a container-resize
\* notification the transform is the one fitBounds(l, t, r, b, p) gives at
\* the new size, (l, t, r, b, p) being the arguments of the last fitBounds
\* call, also when p is not the default.
ResizeRefitStep ==
    (lastEvent' = "resizeObserver" /\ fitRequest # <<>>) =>
        LET a == fitRequest[1]
        IN  Transform' = fitTransform(Transform, Surface', a[1], a[2], a[3], a[4], a[5])

ResizeRefitUsesRequest == [][ResizeRefitStep]_vars

\* C10 -- Resize without a fit request preserves the transform: while
\* fitBounds has never been called, a container-resize notification or a
\* resize() call changes the surface metrics only.
ResizeWithoutFitStep ==
    (lastEvent' \in {"resize", "resizeObserver"} /\ fitRequest = <<>>) =>
        UNCHANGED <<scale, offsetX, offsetY, savedBounds, mouseVars, touchVars>>

ResizeWithoutFitPreservesTransform == [][ResizeWithoutFitStep]_vars

\* a resize notification has changed the surface of a viewport that was
\* zoomed and never fitted, and the zoom is still there
ResizeWithoutFitWitness ==
    /\ lastEvent = "resizeObserver"
    /\ fitRequest = <<>>
    /\ canvasWidth = I(135)
    /\ scale = <<11, 10>>

\* resize() and the ResizeObserver callback
ResizeEvents == {"resize", "resizeObserver"}

\* the parent measures the same size at the same pixel ratio before and
\* after the step, and the surface before the step was sized from it
SameMeasurement ==
    \E sz \in Sizes, d \in Dprs :
        /\ Surface = resize(sz[1], sz[2], d)
        /\ [dpr |-> dpr', canvasWidth |-> canvasWidth', canvasHeight |-> canvasHeight']
              = resize(sz[1], sz[2], d)

\* C11 -- Resize idempotence: a resize() call right after the constructor, a
\* resize() call or a container-resize notification, and a container-resize
\* notification right after a container-resize notification, the parent
\* measuring the same size at the same pixel ratio as for the step before,
\* leaves pixel width and height, dpr, scale, offsetX, offsetY and the
\* remembered bounds as that step left them: twice is the same as once.
ResizeIdempotentStep ==
    (/\ lastEvent' \in ResizeEvents
     /\ lastEvent \in ResizeEvents \cup {"constructor"}
     /\ lastEvent' = "resizeObserver" => lastEvent = "resizeObserver"
     /\ SameMeasurement)
    => UNCHANGED <<surface, transform, savedBounds>>

AnyDragCallback == Opts.onDragStart \/ Opts.onDragMove \/ Opts.onDragEnd

\* the step's handler called e.preventDefault()
Consumed == CallCount(calls', "preventDefault") >= 1

\* C12 -- Capture policy: a touch-start or touch-move with one contact is
\* consumed (its default prevented) exactly when a begin-drag, move-drag or
\* end-drag callback was registered, and one with two contacts is consumed
\* whatever was registered and whatever the gesture mode.
CapturePolicyStep ==
    /\ lastEvent' = "touchstart" =>
          \A ts \in TouchLists :
              TouchStart(ts) =>
                  /\ Len(ts) = 1 => (Consumed <=> AnyDragCallback)
                  /\ Len(ts) = 2 => Consumed
    /\ lastEvent' = "touchmove" =>
          \A ts \in TouchLists :
              TouchMove(ts) =>
                  /\ Len(ts) = 1 => (Consumed <=> AnyDragCallback)
                  /\ Len(ts) = 2 => Consumed

CapturePolicy == [][CapturePolicyStep]_vars

\* C13 -- Touch-cancel always returns to Idle: right after a touch-cancel,
\* whatever the state it arrived in, no gesture mode is active and no drag
\* is in progress.
TouchCancelReturnsToIdle == lastEvent = "touchcancel" => ActiveModes = 0

TouchSingles == {ts \in TouchLists : Len(ts) = 1}

\* C14 -- Input-source anomalies resolve to a valid state: a touch-move
\* with one contact that arrives while TouchPanning is active, and a
\* touch-start with one contact that arrives while a touch mode is active,
\* is treated as a cancel: no touch mode is active afterwards, and a touch
\* drag that was active is ended with end-drag.
AnomalyStep ==
    /\ (lastEvent' = "touchmove" /\ touchPanning
           /\ \E ts \in TouchSingles : TouchMove(ts))
          => ~touchDragging' /\ ~touchPanning'
    /\ (lastEvent' = "touchstart" /\ (touchPanning \/ touchDragging)
           /\ \E ts \in TouchSingles : TouchStart(ts))
          => /\ ~touchDragging' /\ ~touchPanning'
             /\ touchDragging => CallCount(calls', "onDragEnd") = B2N(Opts.onDragEnd)

AnomalyIsCancel == [][AnomalyStep]_vars

\* the values of the 1/2/5 ladder from 0.01 to 5000
LadderValues ==
    {Mul(I(m), p) : m \in {1, 2, 5},
                    p \in {<<1, 100>>, <<1, 10>>, I(1), I(10), I(100), I(1000)}}

\* C15 -- Grid spacing band: at every positive scale the world-space step
\* that drawGrid chooses is a value of the 1/2/5 ladder, and step * scale,
\* the spacing on screen, is between 30 and 300 pixels.
GridSpacingBand ==
    (lastEvent = "drawGrid" /\ Gt(scale, Zero)) =>
        LET step == calls[1][2]
        IN  /\ step \in LadderValues
            /\ Le(I(30), Mul(step, scale))
            /\ Le(Mul(step, scale), I(300))

TouchEvents == {"touchstart", "touchmove", "touchend", "touchcancel"}

\* C16 -- One-to-two finger escalation: the touch-start or touch-move that
\* brings two contacts while TouchDragging is active invokes end-drag
\* exactly once (when an end-drag callback is registered) in the very event
\* that makes TouchPanning active, TouchPanning not being active before it;
\* it sets the baseline to the midpoint and distance of the two contacts,
\* leaves offset and scale unchanged and invokes no move-drag; and no touch
\* event invokes move-drag while TouchPanning is active.
EscalationStep ==
    /\ (lastEvent' \in {"touchstart", "touchmove"} /\ touchDragging) =>
          \A ts \in TouchPairs :
              (TouchStart(ts) \/ TouchMove(ts)) =>
                  /\ ~touchPanning
                  /\ CallCount(calls', "onDragEnd") = B2N(Opts.onDragEnd)
                  /\ ~touchDragging' /\ touchPanning'
                  /\ lastTouchDist' = TouchDist(ts)
                  /\ lastTouchMidX' = MidX(ts)
                  /\ lastTouchMidY' = MidY(ts)
                  /\ UNCHANGED transform
                  /\ CallCount(calls', "onDragMove") = 0
    /\ (lastEvent' \in TouchEvents /\ touchPanning) =>
          CallCount(calls', "onDragMove") = 0

FingerEscalation == [][EscalationStep]_vars

\* the first two-contact touch-move of a one-finger drag has ended the drag
\* and taken the baseline of two contacts 100 apart, the view untouched
FingerEscalationWitness ==
    /\ lastEvent = "touchmove"
    /\ calls = Call0("preventDefault") \o Call0("onDragEnd")
    /\ touchPanning /\ ~touchDragging
    /\ lastTouchDist = I(100) /\ lastTouchMidX = I(150)
    /\ scale = I(1) /\ offsetX = Zero

\* panBy(dx, dy) of a transform
panBy(tr, dx, dy) ==
    [offsetX |-> Add(tr.offsetX, dx), offsetY |-> Add(tr.offsetY, dy), scale |-> tr.scale]

\* C17 -- Incremental pinch baseline: every two-contact touch-move handled
\* in TouchPanning pans by (current midpoint - stored midpoint) and, the
\* stored distance being positive so that the ratio exists, zooms at the
\* current midpoint by (current distance / stored distance), the stored
\* values being those the previous frame (or the gesture's start, for the
\* first frame) left; and it stores the current midpoint and distance, so
\* that the next frame never works from an older baseline.
PinchBaselineStep ==
    (lastEvent' = "touchmove" /\ touchPanning) =>
        \A ts \in TouchPairs :
            TouchMove(ts) =>
                LET panned == panBy(Transform, Sub(MidX(ts), lastTouchMidX),
                                               Sub(MidY(ts), lastTouchMidY))
                IN  /\ Gt(lastTouchDist, Zero) =>
                          Transform' = zoomTowards(panned, MidX(ts), MidY(ts),
                                                   Div(TouchDist(ts), lastTouchDist))
                    /\ NumEq(lastTouchDist, Zero) => Transform' = panned
                    /\ lastTouchMidX' = MidX(ts)
                    /\ lastTouchMidY' = MidY(ts)
                    /\ lastTouchDist' = TouchDist(ts)

IncrementalPinchBaseline == [][PinchBaselineStep]_vars

\* a gesture started with both contacts at one point, a first frame with the
\* contacts 100 apart, which panned by 50 and stored that distance, and a
\* second frame 140 apart, which zoomed by 140 / 100 from the first frame's
\* baseline (the baseline of the gesture's start would have given no zoom)
IncrementalPinchBaselineWitness ==
    /\ lastEvent = "touchmove"
    /\ nEvents = 4
    /\ calls = Call0("preventDefault") \o Call0("redraw")
    /\ touchPanning
    /\ lastTouchDist = I(140) /\ lastTouchMidX = I(150)
    /\ scale = <<7, 5>> /\ offsetX = I(10) /\ offsetY = I(-40)

panAnchor == <<panStartX, panStartY, panStartOffX, panStartOffY>>

\* <<button, altKey>> of the pointer-downs that pan: middle, right, Alt + left
PanButtons == {<<1, FALSE>>, <<2, FALSE>>, <<0, TRUE>>}

PlainLeft == <<0, FALSE>>

\* C18 -- Mouse pan is anchored: the pointer-down that starts Panning
\* records the pointer's screen position and the current offset and leaves
\* the transform unchanged; every pointer-move at s while Panning leaves
\* offset = recorded offset + (s - recorded position), scale unchanged and
\* the record as it was, so that the offset depends on s alone and not on
\* the pointer positions in between.
MousePanStep ==
    /\ lastEvent' = "mousedown" =>
          \A p \in MousePoints, b \in MouseButtons :
              (MouseDown(p, b[1], b[2]) /\ b \in PanButtons) =>
                  /\ isPanning'
                  /\ panStartX' = CanvasX(p) /\ panStartY' = CanvasY(p)
                  /\ panStartOffX' = offsetX /\ panStartOffY' = offsetY
                  /\ UNCHANGED transform
    /\ (lastEvent' = "mousemove" /\ isPanning) =>
          \A p \in MousePoints :
              MouseMove(p) =>
                  /\ isPanning'
                  /\ offsetX' = Add(panStartOffX, Sub(CanvasX(p), panStartX))
                  /\ offsetY' = Add(panStartOffY, Sub(CanvasY(p), panStartY))
                  /\ scale' = scale
                  /\ UNCHANGED panAnchor

MousePanAnchored == [][MousePanStep]_vars

\* a pan begun at canvas x = 100 on the untouched view, the pointer now at
\* canvas x = 150: the offset is the recorded 0 plus 50
MousePanAnchoredWitness ==
    /\ lastEvent = "mousemove"
    /\ calls = Call0("redraw")
    /\ isPanning
    /\ panStartX = I(100) /\ panStartOffX = Zero
    /\ offsetX = I(50) /\ offsetY = Zero /\ scale = I(1)

\* C19 -- Pointer-down classification from Idle: with no mode active, a
\* pointer-down with the middle or right button or with Alt + left enters
\* Panning and invokes no begin-drag; one with the plain left button enters
\* Dragging and invokes begin-drag exactly once (when a begin-drag callback
\* is registered), with screenToWorld of the pointer position under the
\* current transform; one with any other button changes nothing.
PointerDownStep ==
    (lastEvent' = "mousedown" /\ ActiveModes = 0) =>
        \A p \in MousePoints, b \in MouseButtons :
            MouseDown(p, b[1], b[2]) =>
                /\ b \in PanButtons =>
                      /\ isPanning' /\ ~isDragging' /\ ~touchDragging' /\ ~touchPanning'
                      /\ CallCount(calls', "onDragStart") = 0
                /\ b = PlainLeft =>
                      /\ isDragging' /\ ~isPanning' /\ ~touchDragging' /\ ~touchPanning'
                      /\ CallCount(calls', "onDragStart") = B2N(Opts.onDragStart)
                      /\ Opts.onDragStart =>
                            calls' = <<<<"onDragStart",
                                         screenToWorld(CanvasX(p), offsetX, scale),
                                         screenToWorld(CanvasY(p), offsetY, scale)>>>>
                /\ b \notin PanButtons \cup {PlainLeft} =>
                      /\ calls' = <<>>
                      /\ UNCHANGED <<transform, mouseVars, touchVars, surface, savedBounds>>

PointerDownClassification == [][PointerDownStep]_vars

\* after one wheel step in at canvas (100, 100) (scale 1.1, offset -10), a
\* plain left pointer-down at canvas (150, 100) has begun a drag at the
\* world point (160 / 1.1, 100)
PointerDownClassificationWitness ==
    /\ lastEvent = "mousedown"
    /\ isDragging /\ ~isPanning /\ ~touchDragging /\ ~touchPanning
    /\ scale = <<11, 10>> /\ offsetX = I(-10)
    /\ calls = <<<<"onDragStart", <<1600, 11>>, I(100)>>>>

\* C20 -- TouchDragging requires a drag capability: on a viewport without
\* any drag callback (and on one whose interaction was never enabled)
\* touchDragging is false in every state, and a touch-start with one contact
\* that arrives with no mode active leaves no mode active and calls nothing;
\* and touchDragging becomes true only by a touch-start with one contact on
\* a viewport with a drag callback registered.
TouchDragCapabilityStep ==
    /\ (IF opts' = <<>> THEN TRUE ELSE ~AnyDragCallback') => ~touchDragging'
    /\ (lastEvent' = "touchstart" /\ ActiveModes = 0 /\ ~AnyDragCallback) =>
          \A ts \in TouchSingles :
              TouchStart(ts) => (ActiveModes' = 0 /\ calls' = <<>>)
    /\ (~touchDragging /\ touchDragging') =>
          /\ lastEvent' = "touchstart"
          /\ AnyDragCallback
          /\ \E ts \in TouchSingles : TouchStart(ts)

TouchDragNeedsCapability == [][TouchDragCapabilityStep]_vars

\* a touch-start on an idle viewport without drag callbacks has called
\* nothing and left it idle
TouchDragNeedsCapabilityWitness ==
    /\ lastEvent = "touchstart"
    /\ Interactive /\ ~AnyDragCallback
    /\ calls = <<>>
    /\ ActiveModes = 0

DragCallbacks == {"onDragStart", "onDragMove", "onDragEnd"}

\* how many drag callbacks handler output c calls
DragCallCount(c) == Cardinality({i \in DOMAIN c : c[i][1] \in DragCallbacks})

\* C21 -- Partial lift from a pinch: a touch-end that leaves one contact
\* while the state is TouchPanning makes the state Idle, or TouchDragging
\* with a begin-drag invoked in that event; and while no touch drag is
\* active, which once so stays so until a touch-start, a touch-move with
\* one contact invokes no drag callback and changes neither offset nor scale.
PartialLiftStep ==
    /\ (lastEvent' = "touchend" /\ touchPanning /\ ActiveModes = 1 /\ TouchEnd(1)) =>
          \/ ActiveModes' = 0
          \/ /\ touchDragging' /\ ActiveModes' = 1
             /\ CallCount(calls', "onDragStart") = B2N(Opts.onDragStart)
    /\ (lastEvent' = "touchmove" /\ ~touchDragging) =>
          \A ts \in TouchSingles :
              TouchMove(ts) => (DragCallCount(calls') = 0 /\ UNCHANGED transform)
    /\ (~touchDragging /\ touchDragging') => lastEvent' = "touchstart"

PartialLift == [][PartialLiftStep]_vars

\* a pinch begun with two contacts 100 apart has been left by a touch-end:
\* no mode is active, nothing was called, the baseline is still stored
PartialLiftWitness ==
    /\ lastEvent = "touchend"
    /\ nEvents = 3
    /\ ActiveModes = 0
    /\ calls = <<>>
    /\ lastTouchDist = I(100) /\ lastTouchMidX = I(150)

\* the step's handler invoked a redraw callback: the one handed to
\* enableInteraction or the one handed to setResizeRedraw
Redrawn == CallCount(calls', "redraw") + CallCount(calls', "onResizeRedraw") >= 1

\* C22 -- Render trigger follows every transform change: an operation that
\* changes offset or scale on a viewport with a redraw callback registered
\* (a wheel zoom, a pointer-move while Panning, a two-contact touch-move in
\* TouchPanning, a fitBounds call, a resize re-fit) invokes the redraw
\* callback before it returns.
RenderTriggerStep ==
    (transform' # transform /\ (Interactive \/ onResizeRedraw)) => Redrawn

RenderTrigger == [][RenderTriggerStep]_vars

\* a drag is open: begun by the mousedown or touchstart that set the flag
\* and not ended since (the handlers call end-drag exactly where they clear
\* a set flag)
DragOpen == isDragging \/ touchDragging

\* C23 -- Drag callbacks alternate: on a viewport with begin-drag and
\* end-drag registered, begin-drag is never invoked while a drag is open,
\* end-drag is invoked only while a drag is open and closes it, no event
\* invokes both or either twice, and move-drag is invoked only while a drag
\* is open.
DragAlternationStep ==
    (Interactive /\ Opts.onDragStart /\ Opts.onDragEnd) =>
        /\ CallCount(calls', "onDragStart") + CallCount(calls', "onDragEnd") <= 1
        /\ CallCount(calls', "onDragStart") = 1 => ~DragOpen
        /\ CallCount(calls', "onDragEnd") = 1 => (DragOpen /\ ~DragOpen')
        /\ CallCount(calls', "onDragMove") >= 1 => DragOpen

DragAlternation == [][DragAlternationStep]_vars

\* the event handled last was a touch-start or touch-move with two
\* contacts, which stored their midpoint and distance: of the touch
\* handlers' paths that leave touchPanning set, only the two-contact ones
\* call preventDefault
BaselineFresh ==
    /\ lastEvent \in {"touchstart", "touchmove"}
    /\ touchPanning
    /\ CallCount(calls, "preventDefault") = 1

\* C24 -- No jump from a stale pinch baseline: a two-contact touch-move that
\* follows a touch event and changes offset or scale works from a baseline
\* that this preceding touch event computed from its two contacts; after an
\* event with another number of contacts (three or more, touchPanning still
\* set) the first two-contact touch-move leaves the transform unchanged.
StaleBaselineStep ==
    (/\ lastEvent' = "touchmove"
     /\ lastEvent \in TouchEvents
     /\ transform' # transform
     /\ \E ts \in TouchPairs : TouchMove(ts))
    => BaselineFresh

NoStaleBaseline == [][StaleBaselineStep]_vars

\* C25 -- Mouse pan keeps the grabbed point under the pointer: after every
\* pointer-move while Panning, the world point that was under the pointer at
\* the pan's pointer-down is under the pointer again, also when wheel events
\* came between that pointer-down and the pointer-move (on a viewport where
\* fitBounds was never called, so that only gestures change the transform).
GrabbedPointStep ==
    (lastEvent' = "mousemove" /\ isPanning /\ fitRequest = <<>>) =>
        \A p \in MousePoints :
            MouseMove(p) =>
                /\ NumEq(screenToWorld(CanvasX(p), offsetX', scale'), panGrabbed[1])
                /\ NumEq(screenToWorld(CanvasY(p), offsetY', scale'), panGrabbed[2])

GrabbedPointStaysUnderPointer == [][GrabbedPointStep]_vars

\* C26 -- Only pan/zoom events touch the transform: pointer-down,
\* pointer-up, pointer-leave, pointer-move outside Panning, touch-start,
\* touch-end, touch-cancel, touch-move with one contact and context-menu
\* events leave scale, offsetX and offsetY unchanged; offset and scale change
\* only in a wheel event, a pointer-move while Panning, a two-contact
\* touch-move while TouchPanning, and fitBounds (called by the consumer or
\* by the resize notification's re-fit).
TransformFrameStep ==
    /\ lastEvent' \in {"mousedown", "mouseup", "mouseleave", "touchstart", "touchend",
                       "touchcancel", "contextmenu"} => UNCHANGED transform
    /\ (lastEvent' = "mousemove" /\ ~isPanning) => UNCHANGED transform
    /\ (lastEvent' = "touchmove" /\ \E ts \in TouchSingles : TouchMove(ts))
          => UNCHANGED transform
    /\ transform' # transform =>
          \/ lastEvent' \in {"wheel", "fitBounds", "resizeObserver"}
          \/ lastEvent' = "mousemove" /\ isPanning
          \/ lastEvent' = "touchmove" /\ touchPanning
                /\ \E ts \in TouchPairs : TouchMove(ts)

TransformFrame == [][TransformFrameStep]_vars

\* a pinch has zoomed the view to 1.4 and the touch-end after it has left
\* the view there
TransformFrameWitness ==
    /\ lastEvent = "touchend"
    /\ ~touchPanning
    /\ scale = <<7, 5>> /\ offsetX = I(-60)

\* the surface metrics after the step
SurfaceAfter == [dpr |-> dpr', canvasWidth |-> canvasWidth', canvasHeight |-> canvasHeight']

\* C27 -- Deferred fit: fitBounds remembers its rectangle whether or not it
\* can fit it; a resize notification that finds a remembered rectangle
\* (l, t, r, b) with r > l and b > t and brings positive available width
\* and height (logical size minus 80) sets the transform to the fit of
\* (l, t, r, b), so that a fit that was skipped for lack of space is made
\* up for; and only a fitBounds call changes the remembered rectangle.
DeferredFitStep ==
    /\ lastEvent' = "fitBounds" =>
          savedBounds' = <<<<FitArgs[1], FitArgs[2], FitArgs[3], FitArgs[4]>>>>
    /\ (lastEvent' = "resizeObserver" /\ savedBounds # <<>>) =>
          LET b  == savedBounds[1]
              aw == Sub(width(SurfaceAfter), I(80))
              ah == Sub(height(SurfaceAfter), I(80))
          IN  (b[3] > b[1] /\ b[4] > b[2] /\ Gt(aw, Zero) /\ Gt(ah, Zero)) =>
                  /\ NumEq(scale', Min(Div(aw, I(b[3] - b[1])), Div(ah, I(b[4] - b[2]))))
                  /\ NumEq(worldToScreen(Div(I(b[1] + b[3]), I(2)), offsetX', scale'),
                           Div(width(SurfaceAfter), I(2)))
                  /\ NumEq(worldToScreen(Div(I(b[2] + b[4]), I(2)), offsetY', scale'),
                           Div(height(SurfaceAfter), I(2)))
    /\ savedBounds' # savedBounds => lastEvent' = "fitBounds"

DeferredFit == [][DeferredFitStep]_vars

\* fitBounds(0, 0, 100, 50) and then a resize notification that brings a
\* 200 x 200 container: the view shows the rectangle at scale 1.2, centred
DeferredFitWitness ==
    /\ lastEvent = "resizeObserver"
    /\ nEvents = 2
    /\ fitRequest = <<<<0, 0, 100, 50, DefaultPadding>>>>
    /\ savedBounds = <<<<0, 0, 100, 50>>>>
    /\ width(Surface) = I(200)
    /\ scale = <<6, 5>> /\ offsetX = I(40) /\ offsetY = I(70)

\* what navigate(route), run alone to its end, leaves in the container
ContentOf(route) ==
    IF route = "home" THEN {<<"home">>}
    ELSE IF route \notin DemoRoutes THEN {<<"notfound", route>>}
    ELSE {<<"demo", route>>, <<"error", route>>}

\* C28 -- latest navigation wins: once no navigate() call is in flight, the
\* container shows the content of the most recently requested route (the
\* one updateNav marked last), and currentCleanup, when set, is the cleanup
\* function of the demo of that route, which is the one mounted.
LatestNavigationWins ==
    (navigations = {} /\ activeNav # <<>>) =>
        /\ container \in ContentOf(activeNav[1])
        /\ currentCleanup # <<>> =>
              /\ currentCleanup = activeNav
              /\ container = <<"demo", activeNav[1]>>

\* C29 -- single build at a time: in every reachable state of the watcher,
\* whatever the interleaving of change notifications, timer firings and
\* process exits, at most one wasm-pack process started by buildWasm runs.
SingleBuild == running <= 1

\* a build is running and a timer firing during it has been remembered
SingleBuildWitness == running = 1 /\ building /\ pendingBuild /\ nBuilds = 2

\* a notification that onRustChange ignores: a filename not ending in .rs
IgnoredChange == \E f \in Filenames : f # <<>> /\ ~endsWithRs(f) /\ OnRustChange(f)

\* C30 -- no lost rebuild: when every pending timeout fires and every started
\* process exits, each notification for a .rs file or with a null filename
\* (it sets unbuiltChange) is eventually followed by the start of a build (it
\* clears unbuiltChange), also when the notification arrives during a build;
\* and a notification for a file not ending in .rs starts no build, arms no
\* timer and records no pending build.
NoLostRebuild ==
    /\ unbuiltChange ~> ~unbuiltChange
    /\ [][IgnoredChange =>
            UNCHANGED <<building, pendingBuild, debounceTimer, running, nBuilds,
                        unbuiltChange>>]_vars

\* a build started after two notifications were both answered, none pending
NoLostRebuildWitness ==
    /\ nChanges = 2 /\ nBuilds = 2 /\ running = 1
    /\ ~unbuiltChange /\ ~pendingBuild /\ ~debounceTimer

====
